---------------------------- MODULE Spec2Model ----------------------------
(***************************************************************************)
(* A model of the MSxDJI synthetic-image tools:                            *)
(*   src/im_generator/im_generator.py   create_image and the batch driver  *)
(*   src/vott_to_azure/vott_to_azure.py the annotation-format converter    *)
(*                                                                         *)
(* Images are sequences of rows, rows are sequences of pixels, a pixel is  *)
(* a sequence of 8-bit channels in OpenCV order (B, G, R[, A]).  Python's  *)
(* 0-based pixel (row y, column x) is img[y + 1][x + 1].                   *)
(***************************************************************************)
EXTENDS Integers, Sequences, FiniteSets, TLC

VARIABLES
    \* ---- create_image (im_generator.py 15-140)
    disk,        \* the dataset tree: split -> sequence of [name, files]
    dataset,     \* the argument of create_image
    pc,          \* position inside create_image
    labels,      \* line 24
    fruit_cnt,   \* line 28
    fruit_ids,   \* line 29
    fruit_imgs,  \* line 31 (instance numbers, before str().zfill(4))
    imgs,        \* lines 34, 57
    imgs_aug,    \* lines 71, 104
    output,      \* line 107
    place_pts,   \* line 109
    idx,         \* loop index of line 113
    annos,       \* line 133
    color_idx,   \* line 138
    \* ---- __main__ of im_generator.py (143-160)
    d_pc, d_split, d_i, all_annos, fs,
    \* ---- remove_background / get_bounding_box applied to one image
    f_pc, src, dst, re_alpha, f_rect, sprite,
    \* ---- vott_to_azure (vott_to_azure.py 6-24)
    v_pc, v_files, v_fi, v_pos, v_line, data_list, json_struct, v_out

sceneVars == <<disk, dataset, pc, labels, fruit_cnt, fruit_ids, fruit_imgs,
               imgs, imgs_aug, output, place_pts, idx, annos, color_idx>>
driverVars == <<d_pc, d_split, d_i, all_annos, fs>>
fgVars == <<f_pc, src, dst, re_alpha, f_rect, sprite>>
vottVars == <<v_pc, v_files, v_fi, v_pos, v_line, data_list, json_struct, v_out>>
vars == <<sceneVars, driverVars, fgVars, vottVars>>

----------------------------------------------------------------------------
(* Generic helpers *)

Max2(a, b) == IF a >= b THEN a ELSE b
Min2(a, b) == IF a <= b THEN a ELSE b

Height(img) == Len(img)
Width(img) == IF Len(img) = 0 THEN 0 ELSE Len(img[1])
Pixels(img) == {<<r, c>> : r \in 1..Height(img), c \in 1..Width(img)}

\* The number of planes cv2.split gives (img.shape[2]).
Channels(img) == IF Pixels(img) = {} THEN 0 ELSE Len(img[1][1])

----------------------------------------------------------------------------
(* OpenCV primitives used by create_image *)

\* cv2.cvtColor(., COLOR_BGR2GRAY) on one 8-bit pixel: OpenCV's fixed-point
\* (B*3735 + G*19235 + R*9798 + 2^14) >> 15; a fourth channel is ignored.
Gray(p) == (p[1] * 3735 + p[2] * 19235 + p[3] * 9798 + 16384) \div 32768

cvtColorGray(img) ==
    [r \in 1..Height(img) |-> [c \in 1..Width(img) |-> Gray(img[r][c])]]

\* cv2.threshold(g, thresh, maxval, THRESH_BINARY)[1]
ThresholdBinary(g, thresh, maxval) ==
    [r \in 1..Height(g) |->
        [c \in 1..Width(g) |-> IF g[r][c] > thresh THEN maxval ELSE 0]]

\* cv2.threshold(g, thresh, maxval, THRESH_BINARY_INV)[1]
ThresholdBinaryInv(g, thresh, maxval) ==
    [r \in 1..Height(g) |->
        [c \in 1..Width(g) |-> IF g[r][c] > thresh THEN 0 ELSE maxval]]

\* img[y:y+h, x:x+w]
Crop(img, x, y, w, h) ==
    [r \in 1..h |-> [c \in 1..w |-> img[y + r][x + c]]]

ZeroPixel == <<0, 0, 0, 0>>
----------------------------------------------------------------------------
(* remove_background (im_generator.py 37-54) *)

\* cv2.merge([b, g, r, alpha], 4)
MergeAlpha(bgr, alpha) ==
    [r \in 1..Height(bgr) |->
        [c \in 1..Width(bgr) |->
            <<bgr[r][c][1], bgr[r][c][2], bgr[r][c][3], alpha[r][c]>>]]

\* dst[dst[:, :, 3] == 0] = 0
ZeroTransparent(img) ==
    [r \in 1..Height(img) |->
        [c \in 1..Width(img) |->
            IF img[r][c][4] = 0 THEN ZeroPixel ELSE img[r][c]]]

\* Mutant of BackgroundAlpha: gray level 250 counted as background too.
BackgroundAlphaFrom250(img) == ThresholdBinaryInv(cvtColorGray(img), 249, 255)

\* The classification of lines 48-49: grayscale, then THRESH_BINARY_INV at
\* 250 with maxval 255.
BackgroundAlpha(img) == ThresholdBinaryInv(cvtColorGray(img), 250, 255)

remove_background(s) == ZeroTransparent(MergeAlpha(s, BackgroundAlpha(s)))

----------------------------------------------------------------------------
(* get_bounding_box (im_generator.py 73-101) *)

Adjacent8(p, q) ==
    /\ p # q
    /\ p[1] - q[1] \in -1..1
    /\ p[2] - q[2] \in -1..1

Adjacent4(p, q) ==
    \/ p[1] = q[1] /\ p[2] - q[2] \in {-1, 1}
    \/ p[2] = q[2] /\ p[1] - q[1] \in {-1, 1}

\* The 8-connected region of FG that holds `comp`.
RECURSIVE Grow8(_, _)
Grow8(comp, FG) ==
    LET more == {q \in FG \ comp : \E p \in comp : Adjacent8(p, q)}
    IN  IF more = {} THEN comp ELSE Grow8(comp \cup more, FG)

\* The 4-connected region of Free that holds `reach`.
RECURSIVE Grow4(_, _)
Grow4(reach, Free) ==
    LET more == {q \in Free \ reach : \E p \in reach : Adjacent4(p, q)}
    IN  IF more = {} THEN reach ELSE Grow4(reach \cup more, Free)

\* The nonzero pixels of a one-channel image.
NonZero(t) == {p \in Pixels(t) : t[p[1]][p[2]] # 0}

\* The 8-connected regions of the foreground pixels FG.
RECURSIVE Regions8(_)
Regions8(FG) ==
    IF FG = {} THEN {}
    ELSE LET region == Grow8({CHOOSE p \in FG : TRUE}, FG)
         IN  {region} \cup Regions8(FG \ region)

MinRow(c) == CHOOSE m \in {p[1] : p \in c} : \A p \in c : m <= p[1]
MaxRow(c) == CHOOSE m \in {p[1] : p \in c} : \A p \in c : m >= p[1]
MinCol(c) == CHOOSE m \in {p[2] : p \in c} : \A p \in c : m <= p[2]
MaxCol(c) == CHOOSE m \in {p[2] : p \in c} : \A p \in c : m >= p[2]

\* cv2.boundingRect(c): (x, y, w, h), x and y 0-based.
boundingRect(c) ==
    <<MinCol(c) - 1, MinRow(c) - 1,
      MaxCol(c) - MinCol(c) + 1, MaxRow(c) - MinRow(c) + 1>>

\* The region with its holes filled: what the outer contour encloses.
FilledRegion(c) ==
    LET frame == {<<r, k>> : r \in (MinRow(c) - 1)..(MaxRow(c) + 1),
                             k \in (MinCol(c) - 1)..(MaxCol(c) + 1)}
        outside == Grow4({<<MinRow(c) - 1, MinCol(c) - 1>>}, frame \ c)
    IN  frame \ outside

\* RETR_EXTERNAL keeps the extreme outer contours only: a region that lies in
\* a hole of another region has no contour in the result.
External(regions) ==
    {c \in regions : ~ \E d \in regions \ {c} : c \subseteq FilledRegion(d)}

\* cv2.findContours(thresh, RETR_EXTERNAL, CHAIN_APPROX_SIMPLE): the outer
\* contour of every 8-connected foreground region that is not nested in
\* another; a contour is modelled by the region it surrounds.  The order of
\* the returned list is OpenCV's own and is not modelled: the result is a set.
findContours(t) == External(Regions8(NonZero(t)))

\* Twice the area that one 2x2 block of pixel centres adds to the polygon of
\* the outer contour: a full block adds a unit square, three pixels a half.
CellArea2(cell, filled) ==
    LET n == Cardinality({<<cell[1] + i, cell[2] + j>> : i \in 0..1, j \in 0..1}
                         \cap filled)
    IN  IF n = 4 THEN 2 ELSE IF n = 3 THEN 1 ELSE 0

RECURSIVE SumCells(_, _)
SumCells(cells, filled) ==
    IF cells = {} THEN 0
    ELSE LET e == CHOOSE e \in cells : TRUE
         IN  CellArea2(e, filled) + SumCells(cells \ {e}, filled)

\* 2 * cv2.contourArea(c): the area of the polygon through the centres of
\* the region's border pixels (so one pixel, or a one-pixel line, has area 0).
contourArea2(c) ==
    SumCells({<<r, k>> : r \in MinRow(c)..(MaxRow(c) - 1),
                         k \in MinCol(c)..(MaxCol(c) - 1)},
             FilledRegion(c))

\* The thresholding of lines 85-86 and 93-95: grayscale, THRESH_BINARY at 1.
ForegroundMask(img) == ThresholdBinary(cvtColorGray(img), 1, 255)

\* max(contours, key=cv2.contourArea): the contours of maximal area.  Python
\* returns the first of them in OpenCV's list order, which the model leaves
\* open, so a tie is a choice among these.
LargestContours(img) ==
    LET cs == findContours(ForegroundMask(img))
    IN  {c \in cs : \A d \in cs : contourArea2(c) >= contourArea2(d)}

\* Lines 91-101 for the chosen contour c.
get_bounding_box(img, c) ==
    LET b == boundingRect(c)
        cropped == Crop(img, b[1], b[2], b[3], b[4])
    IN  [img |-> cropped,
         size |-> <<b[3], b[4]>>,
         thresh |-> ForegroundMask(cropped)]
----------------------------------------------------------------------------
(* Default values of the variables a specification does not use *)

NoImage == <<>>
NoSprite == [img |-> <<>>, size |-> <<0, 0>>, thresh |-> <<>>]

SceneIdle ==
    /\ disk = <<>> /\ dataset = 0 /\ pc = "idle" /\ labels = <<>>
    /\ fruit_cnt = 0 /\ fruit_ids = <<>> /\ fruit_imgs = <<>>
    /\ imgs = <<>> /\ imgs_aug = <<>> /\ output = NoImage
    /\ place_pts = <<>> /\ idx = 0 /\ annos = <<>> /\ color_idx = 0

DriverIdle ==
    /\ d_pc = "idle" /\ d_split = 0 /\ d_i = 0
    /\ all_annos = <<>> /\ fs = <<>>

FgIdle ==
    /\ f_pc = "idle" /\ src = NoImage /\ dst = NoImage /\ re_alpha = NoImage
    /\ f_rect = <<>> /\ sprite = NoSprite

VottIdle ==
    /\ v_pc = "idle" /\ v_files = <<>> /\ v_fi = 0 /\ v_pos = 0
    /\ v_line = <<>> /\ data_list = <<>> /\ json_struct = <<>> /\ v_out = <<>>

----------------------------------------------------------------------------
(* remove_background and get_bounding_box on one image, with the identity *)
(* in place of the augmentation of lines 60-71                            *)

White == <<255, 255, 255>>
Black == <<0, 0, 0>>
Red == <<0, 0, 255>>

\* Colours of the input images: around the two thresholds (250 and 1).
FgPalette ==
    {White, <<251, 251, 251>>, <<250, 250, 250>>, Red, <<2, 2, 2>>, <<1, 1, 1>>,
     Black}

\* The 100x100 white image with a 50x50 black square at offset (25, 25).
SquareScenario ==
    [r \in 1..100 |->
        [c \in 1..100 |->
            IF r \in 26..75 /\ c \in 26..75 THEN Black ELSE White]]

\* A 4x4 white image with a 2x2 red square at offset (1, 1): a foreground
\* brighter than gray level 1.
RedSquareImage ==
    [r \in 1..4 |->
        [c \in 1..4 |-> IF r \in 2..3 /\ c \in 2..3 THEN Red ELSE White]]

\* A one-pixel ring on the border of a 5x5 image with a lone pixel in the
\* middle of its hole: two regions, one nested in the other.
NestedImage ==
    [r \in 1..5 |->
        [c \in 1..5 |->
            IF r \in {1, 5} \/ c \in {1, 5} \/ (r = 3 /\ c = 3)
            THEN Red ELSE White]]

\* An L of three pixels and a lone pixel (two regions, areas 1/2 and 0), a
\* ring around a background pixel, two lone pixels (a tie), and the nested
\* regions.
ShapeImages ==
    {<<<<Red, Red, White>>, <<Red, White, White>>, <<White, White, Red>>>>,
     <<<<White, Red, White>>, <<Red, White, Red>>, <<White, Red, White>>>>,
     <<<<Red, White, <<2, 2, 2>> >>>>,
     <<<<Red, Black>>, <<Black, Red>>>>,
     NestedImage}

MaxRawWidth == 2

RawImages ==
    UNION {[1..1 -> [1..w -> FgPalette]] : w \in 1..MaxRawWidth}
    \cup ShapeImages \cup {SquareScenario, RedSquareImage}

FgInit ==
    /\ f_pc = "start" /\ src \in RawImages
    /\ dst = NoImage /\ re_alpha = NoImage /\ f_rect = <<>> /\ sprite = NoSprite
    /\ SceneIdle /\ DriverIdle /\ VottIdle

\* imgs = list(map(remove_background, imgs)), one image.
FgRemove ==
    /\ f_pc = "start"
    /\ Channels(src) = 3
    /\ dst' = remove_background(src)
    /\ f_pc' = "removed"
    /\ UNCHANGED <<src, re_alpha, f_rect, sprite, sceneVars, driverVars, vottVars>>

\* get_bounding_box(dst): the augmentation is the identity.
FgExtract ==
    /\ f_pc = "removed"
    /\ \E c \in LargestContours(dst) :
        /\ f_rect' = boundingRect(c)
        /\ sprite' = get_bounding_box(dst, c)
    /\ f_pc' = "extracted"
    /\ UNCHANGED <<src, dst, re_alpha, sceneVars, driverVars, vottVars>>

\* max() of an empty list raises ValueError (line 90).
FgExtractFail ==
    /\ f_pc = "removed"
    /\ LargestContours(dst) = {}
    /\ f_pc' = "error"
    /\ UNCHANGED <<src, dst, re_alpha, f_rect, sprite, sceneVars, driverVars,
                   vottVars>>

\* remove_background(dst), the function applied to its own output.  Lines
\* 48-49 run (BGR2GRAY reads the three colour channels of a four-channel
\* image) and leave the classification in the local alpha; line 50 unpacks the
\* four planes of cv2.split(dst) into three names and raises ValueError, so
\* the call returns nothing.
FgReapply ==
    /\ f_pc = "removed"
    /\ Channels(dst) # 3
    /\ re_alpha' = BackgroundAlpha(dst)
    /\ f_pc' = "reapply_error"
    /\ UNCHANGED <<src, dst, f_rect, sprite, sceneVars, driverVars, vottVars>>

FgNext == FgRemove \/ FgExtract \/ FgExtractFail \/ FgReapply

SpecForeground == FgInit /\ [][FgNext]_vars
----------------------------------------------------------------------------
(* The augmentation of lines 60-71 (imgaug) *)

\* The nearest integer to n / d, for d > 0 (cvRound).
RoundDiv(n, d) == (2 * n + d) \div (2 * d)

MinOf(S) == CHOOSE m \in S : \A v \in S : m <= v
MaxOf(S) == CHOOSE m \in S : \A v \in S : m >= v

\* The pixel at 0-based column x and row y, and cval = 0 outside the image
\* (mode "constant").
PixelOrZero(img, x, y) ==
    IF y \in 0..(Height(img) - 1) /\ x \in 0..(Width(img) - 1)
    THEN img[y + 1][x + 1]
    ELSE [ch \in 1..Channels(img) |-> 0]

\* iaa.Affine(scale={"x": sx, "y": sy}, rotate=theta, fit_output=True) with
\* the defaults order = 1, cval = 0, for the draw scale = <<10 sx, 10 sy>>
\* and rot = <<5 cos theta, 5 sin theta>>.
\* The matrix scales, then rotates: 50 x' = fx(x, y), 50 y' = fy(x, y).
\* fit_output maps the four corner pixels, takes ceil(max - min + 1) as the
\* new width and height, and shifts the least coordinates to 0.
\* cv2.warpAffine then reads, for every pixel of the result, the source
\* position in 1/32 of a pixel (10 fixed-point bits, the column and the row
\* part rounded apart) and blends the four pixels around it with weights in
\* 1/1024, rounding to nearest.
Affine(img, scale, rot) ==
    LET h == Height(img)
        w == Width(img)
        ax == scale[1]
        ay == scale[2]
        c == rot[1]
        s == rot[2]
        fx(x, y) == ax * c * x - ay * s * y
        fy(x, y) == ax * s * x + ay * c * y
        corners == {<<0, 0>>, <<0, h - 1>>, <<w - 1, h - 1>>, <<w - 1, 0>>}
        minc == MinOf({fx(p[1], p[2]) : p \in corners})
        maxc == MaxOf({fx(p[1], p[2]) : p \in corners})
        minr == MinOf({fy(p[1], p[2]) : p \in corners})
        maxr == MaxOf({fy(p[1], p[2]) : p \in corners})
        out_width == (maxc - minc + 49) \div 50 + 1
        out_height == (maxr - minr + 49) \div 50 + 1
        X32(X, Y) ==
            (RoundDiv(2048 * c * X, ax)
             + RoundDiv(1024 * (50 * s * Y + c * minc + s * minr), 25 * ax)
             + 16) \div 32
        Y32(X, Y) ==
            (RoundDiv(-2048 * s * X, ay)
             + RoundDiv(1024 * (50 * c * Y - s * minc + c * minr), 25 * ay)
             + 16) \div 32
        Sample(X, Y) ==
            LET x0 == X32(X, Y) \div 32
                a == X32(X, Y) % 32
                y0 == Y32(X, Y) \div 32
                b == Y32(X, Y) % 32
            IN  [ch \in 1..Channels(img) |->
                    ((32 - a) * (32 - b) * PixelOrZero(img, x0, y0)[ch]
                     + a * (32 - b) * PixelOrZero(img, x0 + 1, y0)[ch]
                     + (32 - a) * b * PixelOrZero(img, x0, y0 + 1)[ch]
                     + a * b * PixelOrZero(img, x0 + 1, y0 + 1)[ch]
                     + 512) \div 1024]
    IN  [Y \in 1..out_height |-> [X \in 1..out_width |-> Sample(X - 1, Y - 1)]]

\* iaa.Fliplr: img[:, ::-1]
Fliplr(img) ==
    [r \in 1..Height(img) |->
        [c \in 1..Width(img) |-> img[r][Width(img) + 1 - c]]]

\* iaa.Flipud: img[::-1]
Flipud(img) ==
    [r \in 1..Height(img) |-> img[Height(img) + 1 - r]]

\* The 0-based index that stands for index i of a line of n pixels under
\* cv2.BORDER_REFLECT_101.
Reflect101(i, n) ==
    IF n = 1 THEN 0
    ELSE LET q == i % (2 * (n - 1))
         IN  IF q >= n THEN 2 * (n - 1) - q ELSE q

\* The sum of f[j] over j in 0..(n - 1).
RECURSIVE SumTo(_, _)
SumTo(f, n) == IF n = 0 THEN 0 ELSE f[n - 1] + SumTo(f, n - 1)

\* iaa.MotionBlur for the draw k, angle, direction = 0: the kernel is a line
\* of k equal weights through the middle of a k x k matrix, the middle column
\* for angle 0 and the middle row for angle 90; cv2.filter2D applies it to
\* every channel with BORDER_REFLECT_101 and rounds to nearest.
MotionBlur(img, k, angle) ==
    LET h == Height(img)
        w == Width(img)
        tap(r, c, j) ==
            IF angle = 0
            THEN img[Reflect101(r - 1 + j - k \div 2, h) + 1][c]
            ELSE img[r][Reflect101(c - 1 + j - k \div 2, w) + 1]
    IN  [r \in 1..h |->
            [c \in 1..w |->
                [ch \in 1..Channels(img) |->
                    RoundDiv(SumTo([j \in 0..(k - 1) |-> tap(r, c, j)[ch]], k),
                             k)]]]

\* One augmenter of the Sequential applied with the parameters drawn for the
\* image: draw.scale and draw.rotate for Affine, the two coins of the flips,
\* draw.k and draw.angle for MotionBlur.
ApplyAugmenter(name, img, draw) ==
    CASE name = "Affine" -> Affine(img, draw.scale, draw.rotate)
      [] name = "Fliplr" -> IF draw.fliplr THEN Fliplr(img) ELSE img
      [] name = "Flipud" -> IF draw.flipud THEN Flipud(img) ELSE img
      [] name = "MotionBlur" -> MotionBlur(img, draw.k, draw.angle)

\* The augmenters applied in the order drawn for the call.
RECURSIVE augment_image(_, _, _)
augment_image(img, order, draw) ==
    IF order = <<>> THEN img
    ELSE augment_image(ApplyAugmenter(Head(order), img, draw), Tail(order), draw)

\* random_order=True: the orders of the four augmenters the model draws from,
\* the first NumOrders of this list.
NumOrders == 1
AugOrderList ==
    <<<<"MotionBlur", "Flipud", "Affine", "Fliplr">>,
      <<"Affine", "Fliplr", "Flipud", "MotionBlur">>,
      <<"Fliplr", "MotionBlur", "Affine", "Flipud">>,
      <<"Flipud", "Affine", "MotionBlur", "Fliplr">>>>
AugOrders == {AugOrderList[i] : i \in 1..NumOrders}

\* The continuous parameters the model draws from, the first NumDraws of this
\* list: scale x and y in tenths (of [0.8, 1.2]), the rotation as
\* <<5 cos, 5 sin>> (about 36.87, -53.13, 0 and 53.13 degrees, of [-90, 90]),
\* the kernel size and the angle of the blur (its direction is 0).
NumDraws == 1
AugDrawList ==
    <<[scale |-> <<10, 10>>, rotate |-> <<4, 3>>, k |-> 3, angle |-> 0],
      [scale |-> <<12, 8>>, rotate |-> <<3, -4>>, k |-> 5, angle |-> 90],
      [scale |-> <<10, 10>>, rotate |-> <<5, 0>>, k |-> 3, angle |-> 90],
      [scale |-> <<8, 12>>, rotate |-> <<3, 4>>, k |-> 5, angle |-> 0]>>

\* The draws for one image: the continuous parameters and the two coins of
\* Fliplr(0.5) and Flipud(0.5).
AugDraws ==
    {[scale |-> AugDrawList[i].scale, rotate |-> AugDrawList[i].rotate,
      k |-> AugDrawList[i].k, angle |-> AugDrawList[i].angle,
      fliplr |-> lr, flipud |-> ud] :
        i \in 1..NumDraws, lr \in BOOLEAN, ud \in BOOLEAN}

----------------------------------------------------------------------------
(* create_image (im_generator.py 15-140) *)

\* The canvas: DIMENSION = (600, 800) of line 12, scaled down.
CanvasH == 3
CanvasW == 3
DIMENSION == <<CanvasH, CanvasW>>

\* np.random.randint(low, high): the integers of [low, high); it raises
\* ValueError when low >= high, which is the empty set here.
RandInt(low, high) == low..(high - 1)

\* All sequences that take their k-th element from the k-th set.
RECURSIVE Choices(_)
Choices(sets) ==
    IF sets = <<>> THEN {<<>>}
    ELSE {<<h>> \o t : h \in Head(sets), t \in Choices(Tail(sets))}

\* Lines 24-25 (and 155-156): one (name, number of files) per directory.
WalkLabels(tree) == [i \in 1..Len(tree) |-> <<tree[i].name, Len(tree[i].files)>>]

\* Mutant of FruitCounts: the count drawn from [0, 4).
FruitCountsFromZero == RandInt(0, 4)

\* Line 28.
FruitCounts == RandInt(1, 4)

\* Line 29: label ids for cnt draws.
FruitIdDraws(lbls, cnt) == [1..cnt -> RandInt(0, Len(lbls))]

\* Mutant of InstanceDraws: the upper end included.
InstanceDrawsInclusive(lbls, ids) ==
    Choices([k \in 1..Len(ids) |-> 0..lbls[ids[k] + 1][2]])

\* Line 31: one instance number per sampled label id.
InstanceDraws(lbls, ids) ==
    Choices([k \in 1..Len(ids) |-> RandInt(0, lbls[ids[k] + 1][2])])

\* np.zeros((*DIMENSION, 4), np.uint8)
Zeros(h, w) == [r \in 1..h |-> [c \in 1..w |-> ZeroPixel]]

\* Mutant of PlacePoints: the upper ends included.
PlacePointsInclusive(size) ==
    {<<x, y>> : x \in 0..(DIMENSION[2] - size[1]),
                y \in 0..(DIMENSION[1] - size[2])}

\* Mutant of PlacePoints: an empty range clamped to 0 instead of an error.
PlacePointsClamped(size) ==
    {<<x, y>> : x \in 0..Max2(0, DIMENSION[2] - size[1] - 1),
                y \in 0..Max2(0, DIMENSION[1] - size[2] - 1)}

\* Line 109 for one sprite: the top-left corners it may get.
PlacePoints(size) ==
    {<<x, y>> : x \in RandInt(0, DIMENSION[2] - size[1]),
                y \in RandInt(0, DIMENSION[1] - size[2])}

\* cv2.bitwise_not on a mask.
BitwiseNot(m) ==
    [r \in 1..Height(m) |-> [c \in 1..Width(m) |-> 255 - m[r][c]]]

\* cv2.bitwise_and(a, a, mask=m): a where m is nonzero, zero elsewhere.
BitwiseAndMask(a, m) ==
    [r \in 1..Height(a) |->
        [c \in 1..Width(a) |-> IF m[r][c] # 0 THEN a[r][c] ELSE ZeroPixel]]

\* cv2.add: the saturated sum of every channel.
Add(a, b) ==
    [r \in 1..Height(a) |->
        [c \in 1..Width(a) |->
            [ch \in 1..4 |-> Min2(255, a[r][c][ch] + b[r][c][ch])]]]

\* out[y:y+h, x:x+w] = patch
Paste(out, x, y, patch) ==
    [r \in 1..Height(out) |->
        [c \in 1..Width(out) |->
            IF r - y \in 1..Height(patch) /\ c - x \in 1..Width(patch)
            THEN patch[r - y][c - x] ELSE out[r][c]]]

\* Mutant of PlaceSprite: the region is not blacked out under the mask.
PlaceSpriteNoBlackout(out, spr, x, y) ==
    LET roi == Crop(out, x, y, spr.size[1], spr.size[2])
        img2_fg == BitwiseAndMask(spr.img, spr.thresh)
    IN  Paste(out, x, y, Add(roi, img2_fg))

\* Lines 114-126: one sprite composited at (x, y).
PlaceSprite(out, spr, x, y) ==
    LET roi == Crop(out, x, y, spr.size[1], spr.size[2])
        mask == spr.thresh
        mask_inv == BitwiseNot(mask)
        img1_bg == BitwiseAndMask(roi, mask_inv)
        img2_fg == BitwiseAndMask(spr.img, mask)
    IN  Paste(out, x, y, Add(img1_bg, img2_fg))

\* Lines 129-131: true division, kept as the fractions <<numerator, denominator>>.
BBox(x, y, size) ==
    <<<<x, DIMENSION[2]>>, <<y, DIMENSION[1]>>,
      <<size[1], DIMENSION[2]>>, <<size[2], DIMENSION[1]>>>>

WithBBox(spr, b) ==
    [k \in DOMAIN spr \cup {"bbox"} |-> IF k = "bbox" THEN b ELSE spr[k]]

\* Lines 136-137, in BGR.
ms_colors == <<<<0, 187, 255>>, <<0, 187, 124>>, <<241, 161, 0>>, <<20, 83, 246>>>>

\* Mutant of FillBackground: only fully transparent pixels are filled.
FillBackgroundTransparentOnly(out, ci) ==
    [r \in 1..Height(out) |->
        [c \in 1..Width(out) |->
            IF out[r][c][4] = 0
            THEN <<ms_colors[ci + 1][1], ms_colors[ci + 1][2], ms_colors[ci + 1][3], 255>>
            ELSE out[r][c]]]

\* Line 139: output[output[:, :, 3] <= 100] = (*ms_colors[color_idx], 255)
FillBackground(out, ci) ==
    [r \in 1..Height(out) |->
        [c \in 1..Width(out) |->
            IF out[r][c][4] <= 100
            THEN <<ms_colors[ci + 1][1], ms_colors[ci + 1][2], ms_colors[ci + 1][3], 255>>
            ELSE out[r][c]]]
----------------------------------------------------------------------------
(* The dataset trees create_image reads *)

Dark == <<1, 1, 1>>
Green == <<0, 255, 0>>

\* training/: apple holds a red pixel beside a white one, pear a green pixel.
\* test/: apple holds a red row of three, kiwi is an empty directory, plum
\* holds a pixel of gray level 1.
SceneDisk ==
    [t \in {"training/", "test/"} |->
        IF t = "training/"
        THEN <<[name |-> "apple", files |-> << <<<<Red, White>>>> >>],
               [name |-> "pear", files |-> << <<<<Green>>>> >>]>>
        ELSE <<[name |-> "apple", files |-> << <<<<Red, Red, Red>>>> >>],
               [name |-> "kiwi", files |-> <<>>],
               [name |-> "plum", files |-> << <<<<Dark>>>> >>]>>]

SceneLocalsInit ==
    /\ pc = "start" /\ labels = <<>>
    /\ fruit_cnt = 0 /\ fruit_ids = <<>> /\ fruit_imgs = <<>>
    /\ imgs = <<>> /\ imgs_aug = <<>> /\ output = NoImage
    /\ place_pts = <<>> /\ idx = 0 /\ annos = <<>> /\ color_idx = 0

Init ==
    /\ disk = SceneDisk
    /\ dataset \in DOMAIN SceneDisk
    /\ SceneLocalsInit
    /\ DriverIdle /\ FgIdle /\ VottIdle

others == <<driverVars, fgVars, vottVars>>

\* Lines 24-32, all draws succeeding.
Sample ==
    /\ pc = "start"
    /\ labels' = WalkLabels(disk[dataset])
    /\ \E cnt \in FruitCounts :
        \E ids \in FruitIdDraws(labels', cnt) :
            \E insts \in InstanceDraws(labels', ids) :
                /\ fruit_cnt' = cnt
                /\ fruit_ids' = ids
                /\ fruit_imgs' = insts
    /\ pc' = "sampled"
    /\ UNCHANGED <<disk, dataset, imgs, imgs_aug, output, place_pts, idx, annos,
                   color_idx, others>>

\* Lines 24-32, np.random.randint raising ValueError: no label at all
\* (line 29), or a sampled label whose directory is empty (line 31).
SampleFail ==
    /\ pc = "start"
    /\ labels' = WalkLabels(disk[dataset])
    /\ \/ RandInt(0, Len(labels')) = {}
       \/ \E cnt \in FruitCounts :
            \E ids \in FruitIdDraws(labels', cnt) :
                \E k \in 1..cnt : RandInt(0, labels'[ids[k] + 1][2]) = {}
    /\ pc' = "error"
    /\ UNCHANGED <<disk, dataset, fruit_cnt, fruit_ids, fruit_imgs, imgs,
                   imgs_aug, output, place_pts, idx, annos, color_idx, others>>

\* Lines 34-35: file <instance number, zero-filled>.jpg of the label's
\* directory.
ReadImages ==
    /\ pc = "sampled"
    /\ imgs' = [k \in 1..fruit_cnt |->
                   disk[dataset][fruit_ids[k] + 1].files[fruit_imgs[k] + 1]]
    /\ pc' = "read"
    /\ UNCHANGED <<disk, dataset, labels, fruit_cnt, fruit_ids, fruit_imgs,
                   imgs_aug, output, place_pts, idx, annos, color_idx, others>>

\* Line 57.
RemoveBackgrounds ==
    /\ pc = "read"
    /\ imgs' = [k \in 1..Len(imgs) |-> remove_background(imgs[k])]
    /\ pc' = "removed"
    /\ UNCHANGED <<disk, dataset, labels, fruit_cnt, fruit_ids, fruit_imgs,
                   imgs_aug, output, place_pts, idx, annos, color_idx, others>>

\* Line 71.  The order of the augmenters is drawn once for the call, the
\* parameters once per image.
Augment ==
    /\ pc = "removed"
    /\ \E order \in AugOrders :
        \E draws \in [1..Len(imgs) -> AugDraws] :
            imgs_aug' = [k \in 1..Len(imgs) |->
                            augment_image(imgs[k], order, draws[k])]
    /\ pc' = "augmented"
    /\ UNCHANGED <<disk, dataset, labels, fruit_cnt, fruit_ids, fruit_imgs,
                   imgs, output, place_pts, idx, annos, color_idx, others>>

\* Line 104, every image having a contour.
BoundingBoxes ==
    /\ pc = "augmented"
    /\ \E cs \in Choices([k \in 1..Len(imgs_aug) |-> LargestContours(imgs_aug[k])]) :
        imgs_aug' = [k \in 1..Len(imgs_aug) |-> get_bounding_box(imgs_aug[k], cs[k])]
    /\ pc' = "boxed"
    /\ UNCHANGED <<disk, dataset, labels, fruit_cnt, fruit_ids, fruit_imgs,
                   imgs, output, place_pts, idx, annos, color_idx, others>>

\* Line 104, max() of an empty contour list raising ValueError (line 90).
BoundingBoxFail ==
    /\ pc = "augmented"
    /\ \E k \in 1..Len(imgs_aug) : LargestContours(imgs_aug[k]) = {}
    /\ pc' = "error"
    /\ UNCHANGED <<disk, dataset, labels, fruit_cnt, fruit_ids, fruit_imgs,
                   imgs, imgs_aug, output, place_pts, idx, annos, color_idx,
                   others>>

\* Lines 107-110, every sprite having a place.
PlacePts ==
    /\ pc = "boxed"
    /\ output' = Zeros(DIMENSION[1], DIMENSION[2])
    /\ \E pts \in Choices([k \in 1..Len(imgs_aug) |-> PlacePoints(imgs_aug[k].size)]) :
        place_pts' = pts
    /\ idx' = 0
    /\ pc' = "placing"
    /\ UNCHANGED <<disk, dataset, labels, fruit_cnt, fruit_ids, fruit_imgs,
                   imgs, imgs_aug, annos, color_idx, others>>

\* Lines 107-110, np.random.randint raising ValueError for a sprite as wide
\* or as high as the canvas.
PlacePtsFail ==
    /\ pc = "boxed"
    /\ output' = Zeros(DIMENSION[1], DIMENSION[2])
    /\ \E k \in 1..Len(imgs_aug) : PlacePoints(imgs_aug[k].size) = {}
    /\ pc' = "error"
    /\ UNCHANGED <<disk, dataset, labels, fruit_cnt, fruit_ids, fruit_imgs,
                   imgs, imgs_aug, place_pts, idx, annos, color_idx, others>>

\* Lines 113-131: one turn of the loop; idx counts the sprites placed.
Place ==
    /\ pc = "placing"
    /\ idx < Len(place_pts)
    /\ LET k == idx + 1
           x == place_pts[k][1]
           y == place_pts[k][2]
       IN  /\ output' = PlaceSprite(output, imgs_aug[k], x, y)
           /\ imgs_aug' = [imgs_aug EXCEPT
                             ![k] = WithBBox(@, BBox(x, y, imgs_aug[k].size))]
    /\ idx' = idx + 1
    /\ UNCHANGED <<disk, dataset, pc, labels, fruit_cnt, fruit_ids, fruit_imgs,
                   imgs, place_pts, annos, color_idx, others>>

\* Lines 133-134.
Annotate ==
    /\ pc = "placing"
    /\ idx = Len(place_pts)
    /\ annos' = [k \in 1..Len(imgs_aug) |->
                    [id |-> fruit_ids[k], bbox |-> imgs_aug[k].bbox]]
    /\ pc' = "annotated"
    /\ UNCHANGED <<disk, dataset, labels, fruit_cnt, fruit_ids, fruit_imgs,
                   imgs, imgs_aug, output, place_pts, idx, color_idx, others>>

\* Lines 136-140.
Fill ==
    /\ pc = "annotated"
    /\ \E ci \in RandInt(0, 4) :
        /\ color_idx' = ci
        /\ output' = FillBackground(output, ci)
    /\ pc' = "returned"
    /\ UNCHANGED <<disk, dataset, labels, fruit_cnt, fruit_ids, fruit_imgs,
                   imgs, imgs_aug, place_pts, idx, annos, others>>

Next ==
    \/ Sample \/ SampleFail
    \/ ReadImages \/ RemoveBackgrounds \/ Augment
    \/ BoundingBoxes \/ BoundingBoxFail
    \/ PlacePts \/ PlacePtsFail
    \/ Place \/ Annotate \/ Fill

Spec == Init /\ [][Next]_vars
----------------------------------------------------------------------------
(* Sampling alone, on the catalog with counts {0: 3, 1: 5} *)

OneRed == <<<<Red>>>>

CatalogDisk ==
    [t \in {"training/", "test/"} |->
        IF t = "training/"
        THEN <<[name |-> "apple", files |-> <<OneRed, OneRed, OneRed>>],
               [name |-> "pear",
                files |-> <<OneRed, OneRed, OneRed, OneRed, OneRed>>]>>
        ELSE SceneDisk["test/"]]

InitSample ==
    /\ disk = CatalogDisk
    /\ dataset \in DOMAIN CatalogDisk
    /\ SceneLocalsInit
    /\ DriverIdle /\ FgIdle /\ VottIdle

NextSample == Sample \/ SampleFail

SpecSample == InitSample /\ [][NextSample]_vars

----------------------------------------------------------------------------
(* Properties of create_image *)

\* Sprite k covers canvas pixel (r, c) with a set mask pixel.
Covers(k, r, c) ==
    LET x == place_pts[k][1]
        y == place_pts[k][2]
        spr == imgs_aug[k]
    IN  /\ r - y \in 1..spr.size[2]
        /\ c - x \in 1..spr.size[1]
        /\ spr.thresh[r - y][c - x] # 0

\* The pixel sprite k holds for canvas pixel (r, c).
SpritePixel(k, r, c) ==
    imgs_aug[k].img[r - place_pts[k][2]][c - place_pts[k][1]]

CanvasPixels == {<<r, c>> : r \in 1..DIMENSION[1], c \in 1..DIMENSION[2]}

\* The sprites among the first n placed that cover (r, c).
Covering(n, r, c) == {k \in 1..n : Covers(k, r, c)}

Top(S) == CHOOSE k \in S : \A j \in S : j <= k

\* C1: every returned scene has as many annotations as the fruit_cnt drawn
\* for it, and between 1 and 3 of them.
C1_AnnotationCount ==
    pc = "returned" => Len(annos) = fruit_cnt /\ Len(annos) >= 1 /\ Len(annos) <= 3

C1_Witness == pc = "returned" /\ fruit_cnt = 3 /\ Len(annos) = 3

\* A fraction <<n, d>> lies in [0, 1).
InUnit(q) == q[2] > 0 /\ 0 <= q[1] /\ q[1] < q[2]

\* a + b <= 1 for fractions a and b.
SumAtMostOne(a, b) == a[1] * b[2] + b[1] * a[2] <= a[2] * b[2]

\* C2: every annotation's x, y, w, h (normalized) lie in [0, 1) with
\* x + w <= 1 and y + h <= 1, and every placed sprite lies inside the canvas:
\* 0 <= x, x + width <= W, 0 <= y, y + height <= H.
C2_BoxesInsideCanvas ==
    /\ pc \in {"annotated", "returned"} =>
        \A k \in 1..Len(annos) :
            /\ \A j \in 1..4 : InUnit(annos[k].bbox[j])
            /\ SumAtMostOne(annos[k].bbox[1], annos[k].bbox[3])
            /\ SumAtMostOne(annos[k].bbox[2], annos[k].bbox[4])
    /\ pc \in {"placing", "annotated", "returned"} =>
        \A k \in 1..Len(place_pts) :
            /\ 0 <= place_pts[k][1]
            /\ place_pts[k][1] + imgs_aug[k].size[1] <= DIMENSION[2]
            /\ 0 <= place_pts[k][2]
            /\ place_pts[k][2] + imgs_aug[k].size[2] <= DIMENSION[1]

C2_Witness ==
    /\ pc = "returned" /\ Len(annos) = 2
    /\ \E k \in 1..2 : annos[k].bbox[1][1] > 0 /\ annos[k].bbox[2][1] > 0
    /\ \E k \in 1..2 : annos[k].bbox[3][1] = 2 /\ annos[k].bbox[4][1] = 2

\* C3: while sprites are placed, and after the last placement (before the
\* background fill), every canvas pixel covered by the mask of a placed sprite
\* holds the pixel of the last placed sprite whose mask covers it, and every
\* other pixel is still zero.
C3_OcclusionOrder ==
    pc \in {"placing", "annotated"} =>
        \A p \in CanvasPixels :
            LET S == Covering(idx, p[1], p[2])
            IN  IF S = {} THEN output[p[1]][p[2]] = ZeroPixel
                ELSE output[p[1]][p[2]] = SpritePixel(Top(S), p[1], p[2])

\* Two sprites with different pixels overlap in a masked pixel.
C3_Witness ==
    /\ pc = "annotated"
    /\ \E p \in CanvasPixels :
        \E j, k \in Covering(idx, p[1], p[2]) :
            /\ j < k
            /\ SpritePixel(j, p[1], p[2]) # SpritePixel(k, p[1], p[2])

\* The colour of index ci at full opacity.
FillPixel(ci) ==
    <<ms_colors[ci + 1][1], ms_colors[ci + 1][2], ms_colors[ci + 1][3], 255>>

\* C9: the background fill is the step after the last placement; with one
\* palette colour it overwrites every pixel of alpha <= 100, leaves the others
\* and the annotations unchanged, and so leaves no pixel of alpha <= 100.
C9_BackgroundFill ==
    [][(pc' = "returned" /\ pc # "returned") =>
        /\ pc = "annotated" /\ idx = Len(place_pts)
        /\ annos' = annos
        /\ \E ci \in 0..3 :
            \A p \in CanvasPixels :
                IF output[p[1]][p[2]][4] <= 100
                THEN output'[p[1]][p[2]] = FillPixel(ci)
                ELSE output'[p[1]][p[2]] = output[p[1]][p[2]]
        /\ \A p \in CanvasPixels : output'[p[1]][p[2]][4] > 100]_vars

\* A returned scene where a blended sprite pixel (alpha between 1 and 100)
\* was on top and is now the fill colour, and a sprite pixel of alpha above
\* 100 is kept.
C9_Witness ==
    /\ pc = "returned"
    /\ \E p, q \in CanvasPixels :
        LET S == Covering(idx, p[1], p[2])
            T == Covering(idx, q[1], q[2])
        IN  /\ S # {} /\ T # {}
            /\ SpritePixel(Top(S), p[1], p[2])[4] \in 1..100
            /\ output[p[1]][p[2]] = FillPixel(color_idx)
            /\ SpritePixel(Top(T), q[1], q[2])[4] > 100
            /\ output[q[1]][q[2]] = SpritePixel(Top(T), q[1], q[2])

\* Some sprite is as wide or as high as the canvas, or more.
Oversized ==
    \E k \in 1..Len(imgs_aug) :
        \/ imgs_aug[k].size[1] >= DIMENSION[2]
        \/ imgs_aug[k].size[2] >= DIMENSION[1]

\* C10: with a sprite of width >= W or height >= H the scene fails when the
\* placements are chosen: nothing is composited (the canvas is blank, no
\* annotation exists), and the failure is final (no retry inside create_image).
C10_OversizedFails ==
    [][/\ (pc = "boxed" /\ Oversized) =>
            /\ pc' = "error"
            /\ output' = Zeros(DIMENSION[1], DIMENSION[2])
            /\ annos' = <<>> /\ place_pts' = <<>> /\ idx' = 0
       /\ pc = "error" => pc' = "error"]_vars

\* A failed scene with one sprite exactly as wide as the canvas.
C10_Witness ==
    /\ pc = "error" /\ output = Zeros(DIMENSION[1], DIMENSION[2])
    /\ Len(imgs_aug) >= 2
    /\ \E k \in 1..Len(imgs_aug) : imgs_aug[k].size[1] = DIMENSION[2]
----------------------------------------------------------------------------
(* __main__ of im_generator.py (143-160) *)

GEN_PATH == "./generated/"

\* Line 144.
Splits == <<"training/", "test/">>

\* trange(1000) of line 147, scaled down.
NumScenes == 2

DigitChars == <<"0", "1", "2", "3", "4", "5", "6", "7", "8", "9">>

\* str(i) for i >= 0: the decimal digits, as a sequence of characters.
RECURSIVE Str(_)
Str(i) == IF i < 10 THEN <<DigitChars[i + 1]>>
          ELSE Str(i \div 10) \o <<DigitChars[(i % 10) + 1]>>

RECURSIVE ZeroPad(_, _)
ZeroPad(digits, width) ==
    IF Len(digits) >= width THEN digits ELSE ZeroPad(<<"0">> \o digits, width)

\* Mutant of Format04d: no padding.
FormatPlain(i) == Str(i)

\* '{0:04d}'.format(i)
Format04d(i) == ZeroPad(Str(i), 4)

\* A dict (or the file tree) with key k set to v.
Put(f, k, v) == [x \in DOMAIN f \cup {k} |-> IF x = k THEN v ELSE f[x]]

EmptyDict == <<>>

\* Line 158, then json.dump, which writes the int keys as strings.
idx2fruit(lbls) ==
    [key \in {Str(i - 1) : i \in 1..Len(lbls)} |->
        lbls[CHOOSE i \in 1..Len(lbls) : Str(i - 1) = key][1]]

\* The paths written: file names are kept as the parts the code concatenates.
PngPath(split, i) == <<GEN_PATH, split, Format04d(i), ".png">>
AnnoPath(split) == <<GEN_PATH, split, "anno.json">>
IdPath == <<GEN_PATH, "id.json">>

\* What create_image(dataset) may return to the driver: 1 to 3 annotations
\* with label ids of the split's catalog.  The canvas and the boxes do not
\* matter to the driver and are kept as one sample each.
CreateImageReturns(lbls) ==
    UNION {[1..n -> {[id |-> i, bbox |-> BBox(0, 0, <<1, 1>>)] :
                        i \in RandInt(0, Len(lbls))}] : n \in FruitCounts}

\* training/ holds two labels, test/ one.
DriverDisk ==
    [t \in {"training/", "test/"} |->
        IF t = "training/"
        THEN <<[name |-> "apple", files |-> <<OneRed>>],
               [name |-> "pear", files |-> <<OneRed>>]>>
        ELSE <<[name |-> "banana", files |-> <<OneRed>>]>>]

DriverInit ==
    /\ disk = DriverDisk
    /\ d_pc = "scenes" /\ d_split = 1 /\ d_i = 0
    /\ all_annos = EmptyDict /\ fs = EmptyDict
    /\ dataset = 0 /\ pc = "idle" /\ labels = <<>>
    /\ fruit_cnt = 0 /\ fruit_ids = <<>> /\ fruit_imgs = <<>>
    /\ imgs = <<>> /\ imgs_aug = <<>> /\ output = NoImage
    /\ place_pts = <<>> /\ idx = 0 /\ annos = <<>> /\ color_idx = 0
    /\ FgIdle /\ VottIdle

\* Lines 147-150: one scene generated, written and recorded.
GenerateScene ==
    /\ d_pc = "scenes"
    /\ d_i < NumScenes
    /\ \E scene_annos \in CreateImageReturns(WalkLabels(disk[Splits[d_split]])) :
        /\ fs' = Put(fs, PngPath(Splits[d_split], d_i), "png")
        /\ all_annos' = Put(all_annos, Format04d(d_i), scene_annos)
    /\ d_i' = d_i + 1
    /\ UNCHANGED <<d_pc, d_split, sceneVars, fgVars, vottVars>>

\* Line 148: create_image raises; nothing catches it.
GenerateSceneFails ==
    /\ d_pc = "scenes"
    /\ d_i < NumScenes
    /\ d_pc' = "crashed"
    /\ UNCHANGED <<d_split, d_i, all_annos, fs, sceneVars, fgVars, vottVars>>

\* Lines 151-152.
WriteAnnos ==
    /\ d_pc = "scenes"
    /\ d_i = NumScenes
    /\ fs' = Put(fs, AnnoPath(Splits[d_split]), all_annos)
    /\ d_pc' = "labels"
    /\ UNCHANGED <<d_split, d_i, all_annos, sceneVars, fgVars, vottVars>>

\* Lines 155-160, then the next turn of the loop of line 144 (with line 146).
WriteLabels ==
    /\ d_pc = "labels"
    /\ fs' = Put(fs, IdPath, idx2fruit(WalkLabels(disk[Splits[d_split]])))
    /\ IF d_split < Len(Splits)
       THEN /\ d_split' = d_split + 1
            /\ d_i' = 0
            /\ all_annos' = EmptyDict
            /\ d_pc' = "scenes"
       ELSE /\ d_pc' = "done"
            /\ UNCHANGED <<d_split, d_i, all_annos>>
    /\ UNCHANGED <<sceneVars, fgVars, vottVars>>

DriverNext == GenerateScene \/ GenerateSceneFails \/ WriteAnnos \/ WriteLabels

SpecDriver == DriverInit /\ [][DriverNext]_vars

\* The number a sequence of digit characters writes.
RECURSIVE DigitsValue(_)
DigitsValue(ds) ==
    IF ds = <<>> THEN 0
    ELSE 10 * DigitsValue(SubSeq(ds, 1, Len(ds) - 1))
         + (CHOOSE d \in 0..9 : DigitChars[d + 1] = ds[Len(ds)])

\* C7: the splits are processed in sequence and each writes the one shared
\* label-index file: while test/ is processed the file holds training's two
\* labels, after the run it holds exactly test's; each split's annotation file
\* holds one entry per scene, keyed by the scene index padded to 4 digits.
C7_LabelIndexOverwritten ==
    /\ (d_split = 2 /\ d_pc \in {"scenes", "labels"}) =>
        /\ IdPath \in DOMAIN fs
        /\ DOMAIN fs[IdPath] = {<<"0">>, <<"1">>}
        /\ fs[IdPath][<<"0">>] = "apple" /\ fs[IdPath][<<"1">>] = "pear"
    /\ d_pc = "done" =>
        /\ d_split = 2
        /\ IdPath \in DOMAIN fs
        /\ DOMAIN fs[IdPath] = {<<"0">>}
        /\ fs[IdPath][<<"0">>] = "banana"
        /\ \A t \in {"training/", "test/"} :
            /\ AnnoPath(t) \in DOMAIN fs
            /\ Cardinality(DOMAIN fs[AnnoPath(t)]) = NumScenes
            /\ \A i \in 0..(NumScenes - 1) :
                \E key \in DOMAIN fs[AnnoPath(t)] :
                    /\ Len(key) = 4 /\ DigitsValue(key) = i
                    /\ Len(fs[AnnoPath(t)][key]) \in 1..3
                    /\ <<GEN_PATH, t, key, ".png">> \in DOMAIN fs

C7_Witness ==
    /\ d_pc = "done"
    /\ Len(fs[AnnoPath("training/")][<<"0", "0", "0", "1">>]) = 3
    /\ fs[AnnoPath("training/")][<<"0", "0", "0", "0">>][1].id = 1
    /\ Len(fs[AnnoPath("test/")][<<"0", "0", "0", "0">>]) = 2
\* C6: every sampled label id is an index of the label list and every sampled
\* instance number is below that label's count; the catalog with counts
\* {0: 3, 1: 5} has a label index of exactly 2 entries.
C6_SamplesInRange ==
    pc = "sampled" =>
        /\ Len(fruit_ids) = fruit_cnt /\ Len(fruit_imgs) = fruit_cnt
        /\ \A k \in 1..fruit_cnt :
            /\ fruit_ids[k] >= 0 /\ fruit_ids[k] < Len(disk[dataset])
            /\ fruit_imgs[k] >= 0
            /\ fruit_imgs[k] < Len(disk[dataset][fruit_ids[k] + 1].files)
        /\ dataset = "training/" =>
            /\ Len(labels) = 2
            /\ Cardinality(DOMAIN idx2fruit(WalkLabels(disk[dataset]))) = 2

\* The same label and instance drawn three times, the last of the 5 of label 1.
C6_Witness ==
    /\ pc = "sampled" /\ dataset = "training/"
    /\ fruit_ids = <<1, 1, 1>> /\ fruit_imgs = <<4, 4, 4>>
    /\ labels = <<<<"apple", 3>>, <<"pear", 5>>>>

----------------------------------------------------------------------------
(* vott_to_azure (vott_to_azure.py 6-24) *)

\* Strings are sequences of one-character strings.
Whitespace == {" ", "\n"}

\* s.split(" "): the pieces between single spaces (possibly empty).
RECURSIVE SplitSpace(_)
SplitSpace(s) ==
    IF \A i \in 1..Len(s) : s[i] # " " THEN <<s>>
    ELSE LET i == CHOOSE i \in 1..Len(s) :
                    s[i] = " " /\ \A j \in 1..(i - 1) : s[j] # " "
         IN  <<SubSeq(s, 1, i - 1)>> \o SplitSpace(SubSeq(s, i + 1, Len(s)))

RECURSIVE Strip(_)
Strip(s) ==
    IF s = <<>> THEN s
    ELSE IF s[1] \in Whitespace THEN Strip(Tail(s))
    ELSE IF s[Len(s)] \in Whitespace THEN Strip(SubSeq(s, 1, Len(s) - 1))
    ELSE s

RECURSIVE Pow10(_)
Pow10(n) == IF n = 0 THEN 1 ELSE 10 * Pow10(n - 1)

\* float(s) for strings of digits, ".", " " and "\n": surrounding whitespace
\* is dropped; digits with at most one "." and at least one digit are a
\* number, kept as <<digits read as an integer, 10^(digits after the dot)>>;
\* anything else raises ValueError.
ParseFloat(s) ==
    LET body == Strip(s)
        dots == {i \in 1..Len(body) : body[i] = "."}
        digits == SelectSeq(body, LAMBDA ch : ch # ".")
        wellFormed ==
            /\ \A i \in 1..Len(digits) : \E d \in 1..10 : DigitChars[d] = digits[i]
            /\ Cardinality(dots) <= 1
            /\ Len(digits) >= 1
    IN  IF ~wellFormed THEN [ok |-> FALSE, val |-> <<0, 1>>]
        ELSE [ok |-> TRUE,
              val |-> <<DigitsValue(digits),
                        IF dots = {} THEN 1
                        ELSE Pow10(Len(body) - (CHOOSE i \in dots : TRUE))>>]

\* f_in.readline() after n lines were read: the next line with its "\n", or
\* "" at the end of the file.
ReadLine(lines, n) == IF n < Len(lines) THEN lines[n + 1] ELSE <<>>

\* `line` is a list after line 14 and a str after line 20.
AsList(v) == [kind |-> "list", val |-> v]
AsStr(v) == [kind |-> "str", val |-> v]

\* The items of line[a:b] (0-based, b exclusive): list elements, or the
\* characters of a str.
Slice(line, a, b) ==
    LET n == Min2(b, Len(line.val))
    IN  IF line.kind = "list" THEN SubSeq(line.val, a + 1, n)
        ELSE [i \in 1..Max2(0, n - a) |-> <<line.val[a + i]>>]

\* line[0]
First(line) == IF line.kind = "list" THEN line.val[1] ELSE <<line.val[1]>>

\* `while line:`: a list or a str is true unless empty.
Truthy(line) == Len(line.val) > 0

LineA == <<"1", " ", ".", "5", " ", ".", "5", " ", "1", " ", "1", "\n">>
LineB == <<"1", "0", "0", "0", "0", " ", "0", " ", "0", " ", ".", "5", " ", "1", "\n">>
LastLine == <<"0", " ", "0", " ", "1", " ", ".", "2", "5", " ", "1">>

MaxLines == 2

FileContents ==
    UNION {[1..n -> {LineA, LineB}] : n \in 0..MaxLines} \cup {<<LastLine>>}

\* The listings os.walk yields: two .txt files, or a .txt file and another.
Listings ==
    {<<[stem |-> "a", ext |-> ".txt", lines |-> c1],
       [stem |-> "b", ext |-> ".txt", lines |-> c2]>> : c1, c2 \in FileContents}
    \cup {<<[stem |-> "obj", ext |-> ".names", lines |-> <<>>],
            [stem |-> "a", ext |-> ".txt", lines |-> c]>> : c \in FileContents}

VottInit ==
    /\ v_pc = "walk" /\ v_files \in Listings /\ v_fi = 0 /\ v_pos = 0
    /\ v_line = AsList(<<>>) /\ data_list = <<>>
    /\ json_struct = EmptyDict /\ v_out = EmptyDict
    /\ SceneIdle /\ DriverIdle /\ FgIdle

\* Lines 9-14: the next file is a .txt file; its first line is read and split.
OpenFile ==
    /\ v_pc = "walk" /\ v_fi < Len(v_files)
    /\ v_files[v_fi + 1].ext = ".txt"
    /\ data_list' = <<>>
    /\ v_line' = AsList(SplitSpace(ReadLine(v_files[v_fi + 1].lines, 0)))
    /\ v_pos' = 1
    /\ v_pc' = "loop"
    /\ UNCHANGED <<v_files, v_fi, json_struct, v_out, sceneVars, driverVars, fgVars>>

\* Line 10: another file is passed over.
SkipFile ==
    /\ v_pc = "walk" /\ v_fi < Len(v_files)
    /\ v_files[v_fi + 1].ext # ".txt"
    /\ v_fi' = v_fi + 1
    /\ UNCHANGED <<v_pc, v_files, v_pos, v_line, data_list, json_struct, v_out,
                   sceneVars, driverVars, fgVars>>

\* Lines 15-20: one turn of the while loop.
LoopBody ==
    /\ v_pc = "loop" /\ Truthy(v_line)
    /\ LET items == Slice(v_line, 1, 5)
       IN  /\ \A i \in 1..Len(items) : ParseFloat(items[i]).ok
           /\ data_list' = Append(data_list,
                  [id |-> First(v_line),
                   bbox |-> [i \in 1..Len(items) |-> ParseFloat(items[i]).val]])
    /\ v_line' = AsStr(ReadLine(v_files[v_fi + 1].lines, v_pos))
    /\ v_pos' = v_pos + 1
    /\ UNCHANGED <<v_pc, v_files, v_fi, json_struct, v_out, sceneVars,
                   driverVars, fgVars>>

\* Line 18: float raises ValueError; nothing catches it.
LoopCrash ==
    /\ v_pc = "loop" /\ Truthy(v_line)
    /\ \E i \in 1..Len(Slice(v_line, 1, 5)) : ~ParseFloat(Slice(v_line, 1, 5)[i]).ok
    /\ v_pc' = "crashed"
    /\ UNCHANGED <<v_files, v_fi, v_pos, v_line, data_list, json_struct, v_out,
                   sceneVars, driverVars, fgVars>>

\* Line 21, after the loop ends on an empty str.
CloseFile ==
    /\ v_pc = "loop" /\ ~Truthy(v_line)
    /\ json_struct' = Put(json_struct, v_files[v_fi + 1].stem, data_list)
    /\ v_fi' = v_fi + 1
    /\ v_pc' = "walk"
    /\ UNCHANGED <<v_files, v_pos, v_line, data_list, v_out, sceneVars,
                   driverVars, fgVars>>

\* Lines 22-24.
Dump ==
    /\ v_pc = "walk" /\ v_fi = Len(v_files)
    /\ v_out' = json_struct
    /\ v_pc' = "done"
    /\ UNCHANGED <<v_files, v_fi, v_pos, v_line, data_list, json_struct,
                   sceneVars, driverVars, fgVars>>

VottNext == OpenFile \/ SkipFile \/ LoopBody \/ LoopCrash \/ CloseFile \/ Dump

SpecVott == VottInit /\ [][VottNext]_vars

\* The {id, bbox} entry a line "class_id x y w h" stands for.
ExpectedEntry(line) ==
    LET fields == SplitSpace(Strip(line))
    IN  [id |-> fields[1],
         bbox |-> [i \in 1..4 |-> ParseFloat(fields[i + 1]).val]]

\* C8: the converter ends by writing, for every .txt file, the key "file name
\* without extension" with one {id, bbox} entry per line of the file, in line
\* order, for files of 0, 1 or more lines.
C8_OneEntryPerLine ==
    v_pc \in {"done", "crashed"} =>
        /\ v_pc = "done"
        /\ \A i \in 1..Len(v_files) :
            v_files[i].ext = ".txt" =>
                /\ v_files[i].stem \in DOMAIN v_out
                /\ Len(v_out[v_files[i].stem]) = Len(v_files[i].lines)
                /\ \A n \in 1..Len(v_files[i].lines) :
                    v_out[v_files[i].stem][n] = ExpectedEntry(v_files[i].lines[n])

----------------------------------------------------------------------------
(* Properties of remove_background and get_bounding_box *)

\* C4: the 100x100 white image with a 50x50 black square at (25, 25) yields a
\* 50x50 sprite whose bounding rectangle starts at (25, 25) and whose mask is
\* set at every pixel.
C4_BlackSquareSprite ==
    (src = SquareScenario /\ f_pc \in {"extracted", "error"}) =>
        /\ f_pc = "extracted"
        /\ f_rect = <<25, 25, 50, 50>>
        /\ sprite.size = <<50, 50>>
        /\ Height(sprite.img) = 50 /\ Width(sprite.img) = 50
        /\ \A p \in Pixels(sprite.thresh) : sprite.thresh[p[1]][p[2]] # 0

\* Every pixel brighter than 250 became transparent and zero, every other
\* pixel kept its colour and became opaque.
Classified ==
    \A p \in Pixels(src) :
        LET s == src[p[1]][p[2]]
            g == (s[1] * 3735 + s[2] * 19235 + s[3] * 9798 + 16384) \div 32768
        IN  IF g > 250 THEN dst[p[1]][p[2]] = <<0, 0, 0, 0>>
            ELSE dst[p[1]][p[2]] = <<s[1], s[2], s[3], 255>>

\* The classification of lines 48-49 agrees with the alpha channel of img.
SameAlpha(alpha, img) ==
    /\ Pixels(alpha) = Pixels(img)
    /\ \A p \in Pixels(img) : alpha[p[1]][p[2]] = img[p[1]][p[2]][4]

\* C5 as stated: the classification, and applying it again to the output
\* gives the output back.
C5_Idempotent ==
    /\ f_pc \in {"removed", "extracted", "reapply_error", "error"} => Classified
    /\ f_pc # "reapply_error"
    /\ f_pc = "reapplied" => SameAlpha(re_alpha, dst)

\* C5 as amended: the classification; remove_background applied to its own
\* output classifies every pixel as foreground (alpha 255), also the ones it
\* had made transparent, and then raises instead of returning an image.
C5_Classification ==
    /\ f_pc \in {"removed", "extracted", "reapply_error", "error"} => Classified
    /\ f_pc # "reapplied"
    /\ f_pc = "reapply_error" =>
        /\ Channels(dst) = 4
        /\ Pixels(re_alpha) = Pixels(dst)
        /\ \A p \in Pixels(dst) : re_alpha[p[1]][p[2]] = 255

\* An image with a pixel at gray level 250 (kept) and one above (removed),
\* passed to remove_background twice.
C5_Witness ==
    /\ f_pc = "reapply_error"
    /\ \E p, q \in Pixels(src) :
        /\ src[p[1]][p[2]] = <<250, 250, 250>> /\ dst[p[1]][p[2]][4] = 255
        /\ src[q[1]][q[2]] = <<251, 251, 251>> /\ dst[q[1]][q[2]][4] = 0
        /\ re_alpha[q[1]][q[2]] = 255
====
